---------------------------- MODULE Spec2Model ----------------------------
(***************************************************************************)
(* Case-finance tracker (src/src/App.tsx): the App component's state, the  *)
(* handlers that change it and the derivations computed from it.           *)
(*                                                                         *)
(* Representation                                                          *)
(*   - A calendar date "YYYY-MM-DD" is the number of its day; the empty    *)
(*     string and an absent date are NoDate.                               *)
(*   - `now` is the last value Date.now() returned; a call returns that    *)
(*     value again (the same millisecond) or a later one.  todayISO() is   *)
(*     `today`: the handlers run within one day, and the dates typed into  *)
(*     the forms are taken relative to it (the derivations read only the   *)
(*     difference between a date and today).                               *)
(*   - `case-${Date.now()}` is the number t of the millisecond;            *)
(*     `acc-${Date.now()}` is <<"acc", t>>; `${c.id}-acc-${n}` is          *)
(*     <<"case", c.id, n>>; the empty account id "" is NoAccount.          *)
(*   - `e-`/`p-${Math.random()...}` are taken as fresh: nextId counts them.*)
(*   - Amounts are whole currency units (floating-point rounding is not    *)
(*     modelled).  A form's numeric input is <<n>> for the number n and    *)
(*     <<>> for a value Number() turns into NaN.                           *)
(*   - An expense keeps id, amount, accountId, category and subCategory;   *)
(*     its date and note are stored verbatim and read by no handler.  The  *)
(*     category selects of ExpenseForm stay at their initial "", so the    *)
(*     stored category is the suggestion for the note.                     *)
(*   - A text is a string; an absent subcategory (undefined) is NoSub.     *)
(*   - ReminderCenter's state is `selected` (the payment object handed to  *)
(*     setSelected, or NoPayment for null) and `tone`.                     *)
(***************************************************************************)
EXTENDS Integers, Sequences, FiniteSets, TLC

VARIABLES cases, activeId, tab, formAccountId, note, selected, tone,
          now, today, nextId

vars == <<cases, activeId, tab, formAccountId, note, selected, tone,
          now, today, nextId>>

-----------------------------------------------------------------------------
(* Bounds *)

(* Cases in the collection plus expenses and payments recorded so far *)
MaxObjects == 3

(* The last millisecond Date.now() returns *)
MaxNow == 2

(* Inputs *)

NoDate == -1

NoAccount == <<>>

NoSub == ""

NoPayment == [id |-> 0]

Tones == {"polite", "urgent", "playful"}

MS_PER_DAY == 86400000

Tabs == {"overview", "expenses", "payments"}

Statuses == {"upcoming", "completed", "missed"}

(* What is typed into the forms.  A specification draws the handlers'
   arguments from one of the records below: the full sets make a state space
   beyond what TLC explores in minutes, so each specification keeps the whole
   variety of the inputs its properties read and narrows the others. *)
BlankForm ==
  [client |-> "", donor |-> "", code |-> "",
   accountName |-> "Client Escrow", balance |-> <<>>]

ParkersForm ==
  [client |-> "The Parkers", donor |-> "Donor X15", code |-> "DN-1",
   accountName |-> "Client Escrow", balance |-> <<5>>]

UnnamedAccount == [name |-> "", balance |-> <<>>]

TrustAccount == [name |-> "Trust Account", balance |-> <<5>>]

(* clock: the values Date.now() takes while the specification runs.
   The case collection and its accounts: every form, one kind of record. *)
CasesInputs ==
  [caseForms |-> {BlankForm, ParkersForm},
   accountForms |-> {UnnamedAccount, TrustAccount},
   expenseAmounts |-> {<<2>>},
   paymentAmounts |-> {<<3>>},
   dueOffsets |-> {0},
   receivedOffsets |-> {},
   statuses |-> {"completed"},
   clock |-> 0..MaxNow]

(* The ledger: every amount and status, one date. *)
LedgerInputs ==
  [caseForms |-> {ParkersForm},
   accountForms |-> {UnnamedAccount},
   expenseAmounts |-> {<<>>, <<-1>>, <<2>>},
   paymentAmounts |-> {<<>>, <<3>>},
   dueOffsets |-> {0},
   receivedOffsets |-> {},
   statuses |-> Statuses,
   clock |-> {0, 1}]

(* Payment dates: due dates on both sides of today and of the last day of
   the due-soon window, received-on dates left empty or set to yesterday. *)
DatesInputs ==
  [caseForms |-> {ParkersForm},
   accountForms |-> {TrustAccount},
   expenseAmounts |-> {<<2>>},
   paymentAmounts |-> {<<3>>},
   dueOffsets |-> {-1, 0, 7, 8},
   receivedOffsets |-> {-1},
   statuses |-> Statuses,
   clock |-> {0, 1}]

(* Expense notes: the texts typed into ExpenseForm's Note field. *)
Notes ==
  {"", "Uber to airport", "Clinic ultrasound", "Flight for scan",
   "hormone from stash", "Hormone refill", "AMH panel", "amharic class",
   "Airport Shuttle", "Shuttle to the airport", "Medical trip", "Nurse visit",
   "DHL courier", "Essay", "notes"}

NotesInputs ==
  [caseForms |-> {ParkersForm},
   accountForms |-> {TrustAccount},
   expenseAmounts |-> {<<2>>},
   paymentAmounts |-> {<<3>>},
   dueOffsets |-> {0},
   receivedOffsets |-> {},
   statuses |-> {"completed"},
   clock |-> {0, 1},
   notes |-> Notes]

(* Reminders: payments of every status, due today or yesterday. *)
RemindersInputs ==
  [caseForms |-> {ParkersForm},
   accountForms |-> {TrustAccount},
   expenseAmounts |-> {<<2>>},
   paymentAmounts |-> {<<3>>},
   dueOffsets |-> {-1, 0},
   receivedOffsets |-> {},
   statuses |-> Statuses,
   clock |-> {0, 1}]

-----------------------------------------------------------------------------
(* Helpers *)

(* Number(x) || 0 *)
NumberOrZero(raw) == IF raw = <<>> THEN 0 ELSE raw[1]

(* d || todayISO() *)
DateOrToday(d) == IF d = NoDate THEN today ELSE d

todayISO == today

IsValidDate(d) == d # NoDate

(* new Date(iso).getTime() of a valid date *)
getTime(d) == d * MS_PER_DAY

(* Math.ceil(x / m), m > 0 *)
Ceil(x, m) == -((-x) \div m)

daysBetween(a, b) == Ceil(getTime(b) - getTime(a), MS_PER_DAY)

(* The values a call of Date.now() may return *)
DateNow == {t \in {now, now + 1} : t <= MaxNow}

(* blankCase(), t the value of Date.now() *)
blankCase(t) ==
  [id |-> t, code |-> "", client |-> "", donor |-> "",
   accounts |-> <<>>, expenses |-> <<>>, payments |-> <<>>]

(* accounts[0]?.id || "" *)
FirstAccountId(accounts) ==
  IF Len(accounts) >= 1 THEN accounts[1].id ELSE NoAccount

(* cases.find(c => c.id === activeId): the first case with the active id *)
FindIndex(cs, id) ==
  LET hits == {i \in 1..Len(cs) : cs[i].id = id}
  IN  IF hits = {} THEN 0 ELSE CHOOSE i \in hits : \A j \in hits : i <= j

activeCaseOf(cs, id) == cs[FindIndex(cs, id)]

activeCase == activeCaseOf(cases, activeId)

(* The cases an updater may be applied to *)
Cases == {cases[i] : i \in 1..Len(cases)}

(* setActiveCase(updater): prev.map(c => c.id === activeCase.id ? updater(c) : c) *)
setActiveCase(updater) ==
  [i \in 1..Len(cases) |->
     IF cases[i].id = activeCase.id THEN updater[cases[i]] ELSE cases[i]]

(* {...p, ...patch} *)
Merge(p, patch) ==
  [k \in DOMAIN p \cup DOMAIN patch |-> IF k \in DOMAIN patch THEN patch[k] ELSE p[k]]

(* map[k] || 0 *)
Get(map, k) == IF k \in DOMAIN map THEN map[k] ELSE 0

(* map[k] = v *)
Put(map, k, v) == [x \in DOMAIN map \cup {k} |-> IF x = k THEN v ELSE map[x]]

EmptyMap == [x \in {} |-> 0]

-----------------------------------------------------------------------------
(* suggestCategory (lines 57-91) *)

UpperCase == "ABCDEFGHIJKLMNOPQRSTUVWXYZ"

LowerCase == "abcdefghijklmnopqrstuvwxyz"

CharAt(s, i) == SubSeq(s, i, i)

(* The position of the character ch in the text s, 0 when it is not there *)
IndexOf(s, ch) ==
  IF \E k \in 1..Len(s) : CharAt(s, k) = ch
    THEN CHOOSE k \in 1..Len(s) : CharAt(s, k) = ch
    ELSE 0

(* desc.toLowerCase(), for ASCII letters *)
RECURSIVE toLowerCase(_)
toLowerCase(s) ==
  IF Len(s) = 0 THEN ""
  ELSE LET ch == CharAt(s, 1)
           k == IndexOf(UpperCase, ch)
       IN  (IF k = 0 THEN ch ELSE CharAt(LowerCase, k))
           \o toLowerCase(SubSeq(s, 2, Len(s)))

(* The literal w occurs in d at position i *)
At(d, w, i) == i >= 1 /\ i + Len(w) - 1 <= Len(d) /\ SubSeq(d, i, i + Len(w) - 1) = w

(* /w/.test(d) for a literal w *)
Includes(d, w) == \E i \in 1..Len(d) : At(d, w, i)

(* /(w1|w2|...)/.test(d) *)
IncludesAny(d, words) == \E w \in words : Includes(d, w)

(* /a.*b/.test(d) *)
IncludesThen(d, a, b) ==
  \E i, j \in 1..Len(d) : At(d, a, i) /\ At(d, b, j) /\ j >= i + Len(a)

(* \w *)
IsWordChar(ch) == IndexOf(LowerCase \o UpperCase \o "0123456789_", ch) # 0

(* /\bw\b/.test(d), w made of word characters *)
IncludesWord(d, w) ==
  \E i \in 1..Len(d) :
    /\ At(d, w, i)
    /\ i = 1 \/ ~IsWordChar(CharAt(d, i - 1))
    /\ i + Len(w) > Len(d) \/ ~IsWordChar(CharAt(d, i + Len(w)))

NumRules == 23

(* match(re) of the n-th if statement, d the lowercased text *)
match(n, d) ==
  CASE n = 1 -> IncludesAny(d, {"accommodation", "hotel", "airbnb", "lodging"})
    [] n = 2 -> IncludesAny(d, {"flight", "airfare", "ticket"})
    [] n = 3 -> IncludesAny(d, {"baggage", "luggage"})
    [] n = 4 -> Includes(d, "companion")
    [] n = 5 -> IncludesAny(d, {"rebook", "change fee", "rebooking"})
    [] n = 6 -> IncludesAny(d, {"ground transport", "car hire", "rental car", "transport"})
    [] n = 7 -> IncludesAny(d, {"meal", "food", "dinner", "lunch", "breakfast"})
    [] n = 8 -> IncludesThen(d, "shuttle", "airport") \/ Includes(d, "airport shuttle")
    [] n = 9 -> IncludesAny(d, {"taxi", "uber", "lyft", "petrol", "gas"})
    [] n = 10 -> IncludesAny(d, {"support person", "chaperone"})
    [] n = 11 -> IncludesThen(d, "travel", "insurance") \/ Includes(d, "insurance")
    [] n = 12 -> Includes(d, "visa")
    [] n = 13 -> IncludesWord(d, "amh")
    [] n = 14 -> IncludesAny(d, {"genetic", "karyotype", "carrier"})
    [] n = 15 -> IncludesThen(d, "hormone", "stash") \/ Includes(d, "from stash")
    [] n = 16 -> IncludesAny(d, {"hormone", "progesterone", "estradiol", "med"})
    [] n = 17 -> IncludesAny(d, {"lab", "blood", "panel", "cbc"})
    [] n = 18 -> IncludesAny(d, {"scan", "ultrasound", "mri", "sonogram"})
    [] n = 19 -> IncludesAny(d, {"psych", "counsel", "therapy"})
    [] n = 20 -> IncludesAny(d, {"shipping", "courier", "fedex", "dhl", "ups"})
    [] n = 21 -> Includes(d, "essay")
    [] n = 22 -> IncludesAny(d, {"medical", "clinic", "doctor", "nurse"})
    [] n = 23 -> IncludesAny(d, {"travel", "trip", "itinerary"})

(* What the n-th if statement returns *)
returns ==
  <<[main |-> "Travel", sub |-> "Accommodation"],
    [main |-> "Travel", sub |-> "Flight"],
    [main |-> "Travel", sub |-> "Baggage"],
    [main |-> "Travel", sub |-> "Companion flight"],
    [main |-> "Travel", sub |-> "rebooking"],
    [main |-> "Travel", sub |-> "Ground Transport"],
    [main |-> "Travel", sub |-> "Meals"],
    [main |-> "Travel", sub |-> "Shuttle to&from airport"],
    [main |-> "Travel", sub |-> "Stipend.Meals.Taxi.Petrol"],
    [main |-> "Travel", sub |-> "Support Person"],
    [main |-> "Travel", sub |-> "Travel Insurance"],
    [main |-> "Travel", sub |-> "Visa"],
    [main |-> "Medical", sub |-> "AMH"],
    [main |-> "Medical", sub |-> "Genetic test"],
    [main |-> "Medical", sub |-> "Hormones from stash"],
    [main |-> "Medical", sub |-> "Meds.Hormones"],
    [main |-> "Medical", sub |-> "lab work"],
    [main |-> "Medical", sub |-> "Scans"],
    [main |-> "Medical", sub |-> "Psych"],
    [main |-> "Shipping.Courier", sub |-> NoSub],
    [main |-> "Essay", sub |-> NoSub],
    [main |-> "Medical", sub |-> NoSub],
    [main |-> "Travel", sub |-> NoSub]>>

Misc == [main |-> "Misc", sub |-> NoSub]

(* The if statements from the n-th on, in the order `order` visits them *)
RECURSIVE IfChain(_, _, _)
IfChain(d, order, n) ==
  IF n > Len(order) THEN Misc
  ELSE IF match(order[n], d) THEN returns[order[n]]
  ELSE IfChain(d, order, n + 1)

SourceOrder == [n \in 1..NumRules |-> n]

(* The Medical subcategory rules tried before the Travel ones *)
MedicalFirst == [n \in 1..NumRules |-> IF n <= 7 THEN n + 12 ELSE IF n <= 19 THEN n - 7 ELSE n]

(* suggestCategory trying the Medical rules first *)
suggestCategoryMedicalFirst(desc) ==
  LET d == toLowerCase(desc) IN IfChain(d, MedicalFirst, 1)

suggestCategory(desc) ==
  LET d == toLowerCase(desc) IN IfChain(d, SourceOrder, 1)

-----------------------------------------------------------------------------
(* Derivations (lines 369-390) *)

(* accounts.forEach(a => map[a.id] = a.balance) *)
RECURSIVE ForEachAccount(_, _, _)
ForEachAccount(map, accounts, i) ==
  IF i > Len(accounts) THEN map
  ELSE ForEachAccount(Put(map, accounts[i].id, accounts[i].balance), accounts, i + 1)

(* expenses.forEach(e => map[e.accountId] = (map[e.accountId] || 0) - e.amount) *)
RECURSIVE ForEachExpense(_, _, _)
ForEachExpense(map, expenses, i) ==
  IF i > Len(expenses) THEN map
  ELSE ForEachExpense(
         Put(map, expenses[i].accountId, Get(map, expenses[i].accountId) - expenses[i].amount),
         expenses, i + 1)

(* payments.forEach(p => map[p.accountId] = (map[p.accountId] || 0) + p.amount) *)
RECURSIVE ForEachPayment(_, _, _)
ForEachPayment(map, payments, i) ==
  IF i > Len(payments) THEN map
  ELSE ForEachPayment(
         Put(map, payments[i].accountId, Get(map, payments[i].accountId) + payments[i].amount),
         payments, i + 1)

IsCompleted(p) == p.status = "completed"

(* accountBalances crediting every payment, whatever its status *)
accountBalancesAllPayments(c) ==
  LET m1 == ForEachAccount(EmptyMap, c.accounts, 1)
      m2 == ForEachExpense(m1, c.expenses, 1)
  IN  ForEachPayment(m2, c.payments, 1)

accountBalances(c) ==
  LET m1 == ForEachAccount(EmptyMap, c.accounts, 1)
      m2 == ForEachExpense(m1, c.expenses, 1)
  IN  ForEachPayment(m2, SelectSeq(c.payments, IsCompleted), 1)

DUE_SOON_DAYS == 7

(* IsDueSoon without the window's last day *)
IsDueSoonExclusive(p) ==
  /\ p.status # "completed"
  /\ IsValidDate(p.dueDate)
  /\ daysBetween(todayISO, p.dueDate) < DUE_SOON_DAYS
  /\ daysBetween(todayISO, p.dueDate) >= 0

IsDueSoon(p) ==
  /\ p.status # "completed"
  /\ IsValidDate(p.dueDate)
  /\ daysBetween(todayISO, p.dueDate) <= DUE_SOON_DAYS
  /\ daysBetween(todayISO, p.dueDate) >= 0

IsOverdue(p) ==
  /\ p.status # "completed"
  /\ IsValidDate(p.dueDate)
  /\ getTime(p.dueDate) < getTime(todayISO)

kpis(c) ==
  [dueSoon |-> Len(SelectSeq(c.payments, IsDueSoon)),
   overdue |-> Len(SelectSeq(c.payments, IsOverdue))]

(* reduce((s, x) => s + Number(x.amount), 0) over the first n records *)
RECURSIVE Reduce(_, _)
Reduce(records, n) ==
  IF n = 0 THEN 0 ELSE Reduce(records, n - 1) + records[n].amount

totals(c) ==
  [receivedIn |-> LET l == SelectSeq(c.payments, IsCompleted) IN Reduce(l, Len(l)),
   expectedIn |-> LET l == SelectSeq(c.payments, LAMBDA p : ~IsCompleted(p)) IN Reduce(l, Len(l)),
   paidOut |-> Reduce(c.expenses, Len(c.expenses))]

(* a.dueDate.localeCompare(b.dueDate) <= 0, for dates and the empty string *)
DueNoLater(a, b) == a.dueDate <= b.dueDate

(* The first n payments sorted by due date; Array.prototype.sort is stable *)
RECURSIVE SortByDueDate(_, _)
SortByDueDate(payments, n) ==
  IF n = 0 THEN <<>>
  ELSE LET sorted == SortByDueDate(payments, n - 1)
           p == payments[n]
           k == Cardinality({i \in 1..Len(sorted) : DueNoLater(sorted[i], p)})
       IN  SubSeq(sorted, 1, k) \o <<p>> \o SubSeq(sorted, k + 1, Len(sorted))

upcoming(c) ==
  LET l == SelectSeq(c.payments, LAMBDA p : p.status = "upcoming")
  IN  SortByDueDate(l, Len(l))

missed(c) ==
  LET l == SelectSeq(c.payments, LAMBDA p : p.status = "missed")
  IN  SortByDueDate(l, Len(l))

REMINDER_SLOTS == 6

(* ReminderCenter's buttons for payments = [...missed, ...upcoming] *)
eligible(payments) ==
  LET l == SelectSeq(payments, LAMBDA p : p.status # "completed")
  IN  SubSeq(l, 1, IF Len(l) < REMINDER_SLOTS THEN Len(l) ELSE REMINDER_SLOTS)

(* tonePresets[tone]({client, amount, dueDate}): the template and what it is
   filled with *)
reminderPreview(t, payment) ==
  [tone |-> t,
   client |-> IF activeCase.client = "" THEN "Client" ELSE activeCase.client,
   amount |-> payment.amount,
   dueDate |-> payment.dueDate]

(* ReminderCenter's text *)
ReminderText ==
  IF selected # NoPayment THEN reminderPreview(tone, selected)
  ELSE [placeholder |-> "Select a payment to preview reminder text."]

-----------------------------------------------------------------------------
(* Handlers as functions of the current state: each yields the new case
   collection (deleteCase: the collection and the active id). *)

addExpense(payload) ==
  setActiveCase([c \in Cases |->
    [c EXCEPT !.expenses =
       <<[id |-> nextId, amount |-> payload.amount, accountId |-> payload.accountId,
          category |-> payload.category, subCategory |-> payload.subCategory]>>
       \o c.expenses]])

deleteExpense(expenseId) ==
  setActiveCase([c \in Cases |->
    [c EXCEPT !.expenses = SelectSeq(c.expenses, LAMBDA e : e.id # expenseId)]])

(* addAccount without its guard *)
addAccountNoGuard(name, balance) ==
  setActiveCase([c \in Cases |->
    [c EXCEPT !.accounts =
       Append(c.accounts,
              [id |-> <<"case", c.id, Len(c.accounts) + 1>>,
               name |-> name, balance |-> NumberOrZero(balance)])]])

(* addAccount replacing the account the case holds *)
addAccountReplacing(name, balance) ==
  setActiveCase([c \in Cases |->
    [c EXCEPT !.accounts =
       <<[id |-> <<"case", c.id, 1>>, name |-> name, balance |-> NumberOrZero(balance)]>>]])

addAccount(name, balance) ==
  IF Len(activeCase.accounts) >= 1 THEN cases
  ELSE setActiveCase([c \in Cases |->
         [c EXCEPT !.accounts =
            Append(c.accounts,
                   [id |-> <<"case", c.id, Len(c.accounts) + 1>>,
                    name |-> name, balance |-> NumberOrZero(balance)])]])

(* deleteCase without the substitution of a blank case *)
deleteCaseNoBlank(id, t) ==
  LET next == SelectSeq(cases, LAMBDA c : c.id # id)
  IN  [cases |-> next,
       activeId |-> IF id = activeId /\ Len(next) > 0 THEN next[1].id ELSE activeId]

(* deleteCase activating the last remaining case *)
deleteCaseActivatesLast(id, t) ==
  LET next == SelectSeq(cases, LAMBDA c : c.id # id)
      empty == blankCase(t)
  IN  IF Len(next) = 0
        THEN [cases |-> <<empty>>, activeId |-> empty.id]
        ELSE [cases |-> next,
              activeId |-> IF id = activeId THEN next[Len(next)].id ELSE activeId]

deleteCase(id, t) ==
  LET next == SelectSeq(cases, LAMBDA c : c.id # id)
      empty == blankCase(t)
  IN  IF Len(next) = 0
        THEN [cases |-> <<empty>>, activeId |-> empty.id]
        ELSE [cases |-> next,
              activeId |-> IF id = activeId THEN next[1].id ELSE activeId]

(* updatePayment moving the due date to the paid-on date as well *)
updatePaymentResettingDue(id, patch) ==
  setActiveCase([c \in Cases |->
    [c EXCEPT !.payments =
       [i \in 1..Len(c.payments) |->
          IF c.payments[i].id = id
            THEN [Merge(c.payments[i], patch) EXCEPT !.dueDate = patch.paidOn]
            ELSE c.payments[i]]]])

updatePayment(id, patch) ==
  setActiveCase([c \in Cases |->
    [c EXCEPT !.payments =
       [i \in 1..Len(c.payments) |->
          IF c.payments[i].id = id THEN Merge(c.payments[i], patch) ELSE c.payments[i]]]])

addPayment(payload) ==
  setActiveCase([c \in Cases |->
    [c EXCEPT !.payments =
       <<[id |-> nextId, status |-> "upcoming", accountId |-> FirstAccountId(c.accounts),
          amount |-> payload.amount, dueDate |-> payload.dueDate, paidOn |-> NoDate]>>
       \o c.payments]])

addReceivedPayment(payload) ==
  setActiveCase([c \in Cases |->
    [c EXCEPT !.payments =
       <<[id |-> nextId, status |-> "completed", accountId |-> FirstAccountId(c.accounts),
          amount |-> NumberOrZero(payload.amount),
          dueDate |-> DateOrToday(payload.paidOn),
          paidOn |-> DateOrToday(payload.paidOn)]>>
       \o c.payments]])

(* The patch of the "Move to {s}" button of payment p (line 651) *)
MovePatch(p, s) ==
  [status |-> s, paidOn |-> IF s = "completed" THEN todayISO ELSE p.paidOn]

(* NewCaseForm's Create button and onCreate (lines 176-184, 475-480); t is the
   value of Date.now(), read for the account id and for the case id *)
onCreate(payload, t) ==
  <<[id |-> t, payments |-> <<>>, expenses |-> <<>>,
     accounts |-> <<[id |-> <<"acc", t>>, name |-> payload.accountName,
                     balance |-> NumberOrZero(payload.balance)]>>,
     client |-> payload.client, donor |-> payload.donor, code |-> payload.code]>>
  \o cases

(* ExpenseForm's accountId state when the form mounts (line 212) *)
MountExpenseForm(accounts) == FirstAccountId(accounts)

(* Room for one more case or record *)
HasRoom == Len(cases) + (nextId - 1) < MaxObjects

-----------------------------------------------------------------------------
(* Initial state: initialCases = [blankCase()], activeId = initialCases[0].id,
   tab = "overview"; ExpenseForm is not mounted. *)

Init ==
  /\ now = 0
  /\ today = 1
  /\ cases = <<blankCase(now)>>
  /\ activeId = cases[1].id
  /\ tab = "overview"
  /\ formAccountId = NoAccount
  /\ note = ""
  /\ selected = NoPayment
  /\ tone = "polite"
  /\ nextId = 1

(* Tab buttons (line 541); ExpenseForm is mounted while tab = "expenses" and
   ReminderCenter while tab = "payments"; a component that mounts starts from
   its initial state. *)
SetTab ==
  \E t \in Tabs :
    /\ tab' = t
    /\ formAccountId' =
         IF t # "expenses" THEN NoAccount
         ELSE IF tab = "expenses" THEN formAccountId
         ELSE MountExpenseForm(activeCase.accounts)
    /\ note' = IF t = "expenses" /\ tab = "expenses" THEN note ELSE ""
    /\ selected' = IF t = "payments" /\ tab = "payments" THEN selected ELSE NoPayment
    /\ tone' = IF t = "payments" /\ tab = "payments" THEN tone ELSE "polite"
    /\ UNCHANGED <<cases, activeId, now, today, nextId>>

(* Sidebar case button (line 492) *)
SelectCase ==
  \E i \in 1..Len(cases) :
    /\ activeId' = cases[i].id
    /\ UNCHANGED <<cases, tab, formAccountId, note, selected, tone, now, today, nextId>>

CreateCase(in) ==
  \E form \in in.caseForms, t \in DateNow \cap in.clock :
    /\ HasRoom
    /\ cases' = onCreate(form, t)
    /\ activeId' = t
    /\ now' = t
    /\ UNCHANGED <<tab, formAccountId, note, selected, tone, today, nextId>>

(* The Delete Case button: deleteCase(activeCase.id).  blankCase() reads the
   clock only when no case remains. *)
DeleteCase(in) ==
  \E t \in DateNow \cap in.clock :
    /\ cases' = deleteCase(activeCase.id, t).cases
    /\ activeId' = deleteCase(activeCase.id, t).activeId
    /\ now' = IF \A j \in 1..Len(cases) : cases[j].id = activeCase.id THEN t ELSE now
    /\ UNCHANGED <<tab, formAccountId, note, selected, tone, today, nextId>>

(* AddAccountForm (overview tab) -> addAccount(n, Number(b)) *)
AddAccount(in) ==
  \E form \in in.accountForms :
    /\ tab = "overview"
    /\ cases' = addAccount(form.name, form.balance)
    /\ UNCHANGED <<activeId, tab, formAccountId, note, selected, tone, now, today, nextId>>

(* ExpenseForm's Add Expense button (lines 253-265) -> addExpense *)
AddExpense(in) ==
  \E amount \in in.expenseAmounts :
    /\ tab = "expenses"
    /\ HasRoom
    /\ cases' = addExpense([amount |-> NumberOrZero(amount),
                            category |-> suggestCategory(note).main,
                            subCategory |-> suggestCategory(note).sub,
                            accountId |-> formAccountId])
    /\ nextId' = nextId + 1
    /\ UNCHANGED <<activeId, tab, formAccountId, note, selected, tone, now, today>>

(* Delete button of a listed expense of the active case (line 618) ->
   deleteExpense *)
DeleteExpense ==
  \E i \in 1..Len(activeCase.expenses) :
    /\ tab = "expenses"
    /\ cases' = deleteExpense(activeCase.expenses[i].id)
    /\ UNCHANGED <<activeId, tab, formAccountId, note, selected, tone, now, today, nextId>>

(* PaymentForm (line 631) -> addPayment *)
AddPayment(in) ==
  \E amount \in in.paymentAmounts, offset \in in.dueOffsets :
    /\ tab = "payments"
    /\ HasRoom
    /\ cases' = addPayment([amount |-> NumberOrZero(amount), dueDate |-> today + offset])
    /\ nextId' = nextId + 1
    /\ UNCHANGED <<activeId, tab, formAccountId, note, selected, tone, now, today>>

(* ReceivePaymentForm (line 635) -> addReceivedPayment *)
AddReceivedPayment(in) ==
  \E amount \in in.paymentAmounts,
     paidOn \in {NoDate} \cup {today + o : o \in in.receivedOffsets} :
    /\ tab = "payments"
    /\ HasRoom
    /\ cases' = addReceivedPayment([amount |-> <<NumberOrZero(amount)>>, paidOn |-> paidOn])
    /\ nextId' = nextId + 1
    /\ UNCHANGED <<activeId, tab, formAccountId, note, selected, tone, now, today>>

(* "Move to {s}" button of a listed payment (line 651) -> updatePayment *)
MovePayment(in) ==
  \E i \in 1..Len(activeCase.payments), s \in in.statuses :
    LET p == activeCase.payments[i] IN
    /\ tab = "payments"
    /\ cases' = updatePayment(p.id, MovePatch(p, s))
    /\ UNCHANGED <<activeId, tab, formAccountId, note, selected, tone, now, today, nextId>>

(* ExpenseForm's Note field (line 225) *)
SetNote(in) ==
  \E text \in in.notes :
    /\ tab = "expenses"
    /\ note' = text
    /\ UNCHANGED <<cases, activeId, tab, formAccountId, selected, tone, now, today, nextId>>

(* A payment button of ReminderCenter (line 323) *)
SelectPayment ==
  \E i \in 1..Len(eligible(missed(activeCase) \o upcoming(activeCase))) :
    /\ tab = "payments"
    /\ selected' = eligible(missed(activeCase) \o upcoming(activeCase))[i]
    /\ UNCHANGED <<cases, activeId, tab, formAccountId, note, tone, now, today, nextId>>

(* ReminderCenter's Tone select (line 338) *)
SetTone ==
  \E t \in Tones :
    /\ tab = "payments"
    /\ tone' = t
    /\ UNCHANGED <<cases, activeId, tab, formAccountId, note, selected, now, today, nextId>>

NextWith(in) ==
  \/ SetTab
  \/ SelectCase
  \/ CreateCase(in)
  \/ DeleteCase(in)
  \/ AddAccount(in)
  \/ AddExpense(in)
  \/ DeleteExpense
  \/ AddPayment(in)
  \/ AddReceivedPayment(in)
  \/ MovePayment(in)

NextCases == NextWith(CasesInputs)

NextLedger == NextWith(LedgerInputs)

NextDates == NextWith(DatesInputs)

(* The expense form alone: its tab, its note and the expenses it stores *)
NextNotes ==
  \/ SetTab
  \/ SetNote(NotesInputs)
  \/ AddExpense(NotesInputs)
  \/ DeleteExpense

NextReminders == NextWith(RemindersInputs) \/ SelectPayment \/ SetTone

SpecCases == Init /\ [][NextCases]_vars

SpecLedger == Init /\ [][NextLedger]_vars

SpecDates == Init /\ [][NextDates]_vars

SpecNotes == Init /\ [][NextNotes]_vars

SpecReminders == Init /\ [][NextReminders]_vars

-----------------------------------------------------------------------------
(* Properties *)

UniqueCaseIds == \A i, j \in 1..Len(cases) : cases[i].id = cases[j].id => i = j

IsBlank(c) ==
  /\ c.client = "" /\ c.donor = "" /\ c.code = ""
  /\ c.accounts = <<>> /\ c.expenses = <<>> /\ c.payments = <<>>

(* The derived balance shown for the account of a case that holds one *)
DerivedBalance(c) == accountBalances(c)[c.accounts[1].id]

(* The sum of the amounts of the records of s at the positions idx, taken in
   no particular order *)
RECURSIVE SumOver(_, _)
SumOver(s, idx) ==
  IF idx = {} THEN 0
  ELSE LET i == CHOOSE x \in idx : TRUE IN s[i].amount + SumOver(s, idx \ {i})

Reverse(s) == [i \in 1..Len(s) |-> s[Len(s) + 1 - i]]

(* C1: the case collection is never empty: deleteCase always leaves at least
   one case, and deleteCase applied to the only case leaves exactly one case
   with empty client, donor and code and no account, expense or payment. *)
C1_CollectionNeverEmpty ==
  /\ Len(cases) >= 1
  /\ \A i \in 1..Len(cases), t \in DateNow :
       LET after == deleteCase(cases[i].id, t).cases IN
       /\ Len(after) >= 1
       /\ Len(cases) = 1 => Len(after) = 1 /\ IsBlank(after[1])

(* The only case has been deleted: the collection is one blank case that is
   not the initial one, while the tracker holds records no more. *)
C1_Witness ==
  /\ Len(cases) = 1
  /\ IsBlank(cases[1])
  /\ cases[1].id # 0
  /\ nextId > 1

(* C2: every case of the collection holds at most one account. *)
C2_OneAccountPerCase == \A i \in 1..Len(cases) : Len(cases[i].accounts) <= 1

(* One case got its account from addAccount, another from the creation form. *)
C2_Witness ==
  \E i, j \in 1..Len(cases) :
    /\ Len(cases[i].accounts) = 1 /\ cases[i].accounts[1].id[1] = "case"
    /\ Len(cases[j].accounts) = 1 /\ cases[j].accounts[1].id[1] = "acc"

(* C3: addAccount called while the active case holds an account changes
   nothing, whatever name and balance it is given. *)
C3_AddAccountNoOp ==
  Len(activeCase.accounts) >= 1 =>
    \A form \in {UnnamedAccount, TrustAccount} :
      addAccount(form.name, form.balance) = cases

(* The overview tab of a case that holds an account and an expense, beside
   another case. *)
C3_Witness ==
  /\ tab = "overview"
  /\ Len(cases) >= 2
  /\ Len(activeCase.accounts) = 1
  /\ Len(activeCase.expenses) >= 1

(* The example of the specification: balance 1000, one expense of 200, one
   completed payment of 150. *)
ExampleCase ==
  [id |-> 0, code |-> "", client |-> "", donor |-> "",
   accounts |-> <<[id |-> <<"acc", 0>>, name |-> "Client Escrow", balance |-> 1000]>>,
   expenses |-> <<[id |-> 1, amount |-> 200, accountId |-> <<"acc", 0>>]>>,
   payments |-> <<[id |-> 2, status |-> "completed", accountId |-> <<"acc", 0>>,
                   amount |-> 150, dueDate |-> 1, paidOn |-> 1]>>]

(* C4: the derived balance of a case's account is its starting balance, minus
   the amounts of the expenses charged to it, plus the amounts of the
   completed payments credited to it, whatever the order of the lists. *)
C4_DerivedBalance ==
  /\ \A k \in 1..Len(cases) :
       LET c == cases[k]
           a == c.accounts[1]
           charged == {i \in 1..Len(c.expenses) : c.expenses[i].accountId = a.id}
           credited == {i \in 1..Len(c.payments) :
                          /\ c.payments[i].accountId = a.id
                          /\ c.payments[i].status = "completed"}
       IN  Len(c.accounts) = 1 =>
             /\ DerivedBalance(c) =
                  a.balance - SumOver(c.expenses, charged) + SumOver(c.payments, credited)
             /\ DerivedBalance([c EXCEPT !.expenses = Reverse(c.expenses),
                                         !.payments = Reverse(c.payments)])
                  = DerivedBalance(c)
  /\ DerivedBalance(ExampleCase) = 950

(* The active case's account has been charged an expense and credited a
   completed payment. *)
C4_Witness ==
  /\ Len(activeCase.accounts) = 1
  /\ \E i \in 1..Len(activeCase.expenses) :
       /\ activeCase.expenses[i].accountId = activeCase.accounts[1].id
       /\ activeCase.expenses[i].amount # 0
  /\ \E i \in 1..Len(activeCase.payments) :
       /\ activeCase.payments[i].accountId = activeCase.accounts[1].id
       /\ activeCase.payments[i].status = "completed"
       /\ activeCase.payments[i].amount # 0

(* A step of addExpense on the active case: one more expense at the head *)
ExpenseAdded ==
  /\ nextId' = nextId + 1
  /\ activeId' = activeId
  /\ Len(activeCase'.expenses) = Len(activeCase.expenses) + 1
  /\ activeCase'.expenses[1].id = nextId

(* A step of addReceivedPayment on the active case *)
PaymentReceived ==
  /\ nextId' = nextId + 1
  /\ activeId' = activeId
  /\ Len(activeCase'.payments) = Len(activeCase.payments) + 1
  /\ activeCase'.payments[1].id = nextId
  /\ activeCase'.payments[1].status = "completed"

(* A step of the "Move to completed" button of the active case's i-th payment *)
MovedToCompleted(i) ==
  /\ cases' = updatePayment(activeCase.payments[i].id,
                            MovePatch(activeCase.payments[i], "completed"))
  /\ cases' # cases
  /\ UNCHANGED <<activeId, tab, formAccountId, note, selected, tone, now, today, nextId>>

(* C5: an expense of amount a >= 0 added through the expense form to a case
   whose account has starting balance B and no expenses or payments makes the
   derived balance B - a (stated for collections whose case ids differ). *)
C5_ExpenseLowersBalance ==
  [][(/\ ExpenseAdded
      /\ UniqueCaseIds
      /\ Len(activeCase.accounts) = 1
      /\ activeCase.expenses = <<>>
      /\ activeCase.payments = <<>>
      /\ activeCase'.expenses[1].amount >= 0)
     => DerivedBalance(activeCase)' =
          activeCase.accounts[1].balance - activeCase'.expenses[1].amount]_vars

(* C6: in a case that holds an account, a received payment of amount p raises
   the derived balance by p, and so does moving an upcoming or missed payment
   of amount p to completed. *)
C6_PaymentRaisesBalance ==
  [][/\ (PaymentReceived /\ Len(activeCase.accounts) = 1)
          => DerivedBalance(activeCase)' =
               DerivedBalance(activeCase) + activeCase'.payments[1].amount
     /\ \A i \in 1..Len(activeCase.payments) :
          (/\ MovedToCompleted(i)
           /\ UniqueCaseIds
           /\ Len(activeCase.accounts) = 1
           /\ activeCase.payments[i].status # "completed")
          => DerivedBalance(activeCase)' =
               DerivedBalance(activeCase) + activeCase.payments[i].amount]_vars

(* The payments counted by the claim, by whole days *)
DueWithinWeek(c) ==
  {i \in 1..Len(c.payments) :
     /\ c.payments[i].status # "completed"
     /\ today <= c.payments[i].dueDate
     /\ c.payments[i].dueDate <= today + 7}

DueBeforeToday(c) ==
  {i \in 1..Len(c.payments) :
     /\ c.payments[i].status # "completed"
     /\ c.payments[i].dueDate # NoDate
     /\ c.payments[i].dueDate < today}

PaymentDue(offset, status) ==
  [id |-> 1, status |-> status, accountId |-> NoAccount, amount |-> 3,
   dueDate |-> today + offset, paidOn |-> NoDate]

CaseWith(payments) == [blankCase(0) EXCEPT !.payments = payments]

(* C7: dueSoon counts the payments not completed and due from today to
   today + 7, both included; overdue counts those not completed and due before
   today; none is counted in both, and a completed payment in neither. *)
C7_Kpis ==
  /\ \A k \in 1..Len(cases) :
       /\ kpis(cases[k]).dueSoon = Cardinality(DueWithinWeek(cases[k]))
       /\ kpis(cases[k]).overdue = Cardinality(DueBeforeToday(cases[k]))
       /\ \A i \in 1..Len(cases[k].payments) :
            LET p == cases[k].payments[i] IN
            /\ ~(IsDueSoon(p) /\ IsOverdue(p))
            /\ p.status = "completed" => ~IsDueSoon(p) /\ ~IsOverdue(p)
  /\ kpis(CaseWith(<<PaymentDue(3, "upcoming")>>)) = [dueSoon |-> 1, overdue |-> 0]
  /\ kpis(CaseWith(<<PaymentDue(-1, "upcoming")>>)) = [dueSoon |-> 0, overdue |-> 1]

(* The active case has a payment due on the window's last day and one due
   yesterday, neither completed. *)
C7_Witness ==
  /\ \E i \in 1..Len(activeCase.payments) :
       /\ activeCase.payments[i].dueDate = today + 7
       /\ activeCase.payments[i].status = "upcoming"
  /\ \E i \in 1..Len(activeCase.payments) :
       /\ activeCase.payments[i].dueDate = today - 1
       /\ activeCase.payments[i].status = "missed"
  /\ kpis(activeCase) = [dueSoon |-> 1, overdue |-> 1]

(* C8: a payment moved to completed gets today as its paidOn only if it had
   none; one that carries a paidOn date keeps it. *)
C8_PaidOnKept ==
  [][\A i \in 1..Len(activeCase.payments) :
       MovedToCompleted(i) =>
         activeCase'.payments[i].paidOn =
           IF activeCase.payments[i].paidOn = NoDate
             THEN today ELSE activeCase.payments[i].paidOn]_vars

(* C9: a payment has a paidOn date only if its status is completed. *)
C9_PaidOnOnlyWhenCompleted ==
  \A k \in 1..Len(cases) : \A i \in 1..Len(cases[k].payments) :
    cases[k].payments[i].paidOn # NoDate => cases[k].payments[i].status = "completed"

(* The cases of the collection that deleteCase(id) is to keep, in their order *)
Kept(id) == {j \in 1..Len(cases) : cases[j].id # id}

NthKept(id, n) == CHOOSE j \in Kept(id) : Cardinality({x \in Kept(id) : x < j}) = n - 1

(* C10: deleteCase(id) removes the case with that id and keeps the others
   unchanged and in their order; when cases remain, the active case becomes
   the first of them if the deleted case was active, and stays otherwise. *)
C10_DeleteCase ==
  \A i \in 1..Len(cases), t \in DateNow :
    LET id == cases[i].id
        after == deleteCase(id, t)
    IN  Kept(id) # {} =>
          /\ Len(after.cases) = Cardinality(Kept(id))
          /\ \A n \in 1..Len(after.cases) : after.cases[n] = cases[NthKept(id, n)]
          /\ UniqueCaseIds => Len(after.cases) = Len(cases) - 1
          /\ id = activeId => after.activeId = after.cases[1].id
          /\ id # activeId => after.activeId = activeId

(* The initial blank case has been deleted from beside a case created through
   the form, which remains as it was and is the active one. *)
C10_Witness ==
  /\ Len(cases) = 1
  /\ Len(cases[1].accounts) = 1
  /\ cases[1].accounts[1].id = <<"acc", cases[1].id>>
  /\ cases[1].id # 0
  /\ activeId = cases[1].id

(* The step replaces the deleted case(s) by a blank case *)
OnlyCaseDeleted ==
  /\ Kept(activeId) = {}
  /\ \E t \in DateNow : cases' = <<blankCase(t)>> /\ activeId' = t /\ now' = t

(* The records of list that existed before the step (ids below nextId) *)
Existing(list) == SelectSeq(list, LAMBDA r : r.id < nextId)

(* before and after are one case's expenses around a step: the existing
   expenses are unchanged and in their order, a new one stands at the head
   in front of all of them *)
ExpensesKept(before, after) ==
  /\ Existing(after) =
       SelectSeq(before, LAMBDA e : \E i \in 1..Len(after) : after[i] = e)
  /\ \A i \in 2..Len(after) : after[i].id < nextId
  /\ Len(after) > Len(before) => Tail(after) = before

(* The same for payments: none is removed, and each keeps its id, amount,
   dueDate and accountId *)
PaymentsKept(before, after) ==
  /\ Len(Existing(after)) = Len(before)
  /\ \A i \in 1..Len(before) :
       LET p == before[i]
           q == Existing(after)[i]
       IN  /\ q.id = p.id /\ q.amount = p.amount
           /\ q.dueDate = p.dueDate /\ q.accountId = p.accountId
  /\ \A i \in 2..Len(after) : after[i].id < nextId

(* C11: stored records are immutable apart from the allowed changes: a step
   changes no field of an existing expense, changes only status and paidOn of
   an existing payment, removes no payment from a case that remains, and puts
   a new expense or payment at the head of its list in front of the existing
   records, whose order it keeps. *)
C11_RecordsImmutable ==
  [][\/ OnlyCaseDeleted
     \/ /\ Len(cases') < Len(cases)
        /\ \A n \in 1..Len(cases') : \E k \in 1..Len(cases) : cases'[n] = cases[k]
     \/ /\ Len(cases') >= Len(cases)
        /\ \A k \in 1..Len(cases) :
             LET c == cases[k]
                 d == cases'[k + Len(cases') - Len(cases)]
             IN  /\ d.id = c.id
                 /\ ExpensesKept(c.expenses, d.expenses)
                 /\ PaymentsKept(c.payments, d.payments)]_vars

(* An invoice was moved to missed and another one added after it. *)
C11_Witness ==
  /\ Len(activeCase.payments) = 2
  /\ activeCase.payments[2].status = "missed"
  /\ activeCase.payments[2].amount = 3
  /\ activeCase.payments[1].status = "upcoming"
  /\ activeCase.payments[1].id > activeCase.payments[2].id

(* The ids deleteExpense is tried with: those of the expenses listed for the
   active case, and one that no expense has *)
ExpenseIds ==
  {activeCase.expenses[i].id : i \in 1..Len(activeCase.expenses)} \cup {nextId}

(* C12: deleteExpense(expenseId) removes from the active case exactly the
   expenses with that id and keeps the others in their order; it leaves the
   rest of that case and every other case of the collection unchanged, and
   the whole state when no expense has that id. *)
C12_DeleteExpense ==
  \A expenseId \in ExpenseIds :
    LET after == deleteExpense(expenseId)
        a == FindIndex(cases, activeId)
    IN  /\ Len(after) = Len(cases)
        /\ after[a] = [activeCase EXCEPT !.expenses =
                         SelectSeq(activeCase.expenses, LAMBDA e : e.id # expenseId)]
        /\ \A k \in 1..Len(cases) : k # a => after[k] = cases[k]
        /\ expenseId = nextId => after = cases

(* C13: every stored expense has an amount >= 0. *)
C13_ExpenseAmountsNonNegative ==
  \A k \in 1..Len(cases) : \A i \in 1..Len(cases[k].expenses) :
    cases[k].expenses[i].amount >= 0

(* The rules by group, in the order of the claim *)
TravelSubRules == 1..12

MedicalSubRules == 13..19

MainOnlyRules == 20..23

(* The rules whose pattern matches the lowercased text *)
Hits(text) == LET d == toLowerCase(text) IN {n \in 1..NumRules : match(n, d)}

First(rules) == CHOOSE n \in rules : \A m \in rules : n <= m

(* C14: for the note in the expense form, suggestCategory returns the result of the first rule that matches the
   lowercased text, the rules taken in the order Travel subcategories,
   Medical subcategories, main categories only; Misc when none matches, the
   empty text included; 'Uber to airport' gives Travel /
   Stipend.Meals.Taxi.Petrol and 'Clinic ultrasound' Medical / Scans. *)
C14_SuggestCategory ==
  LET r == suggestCategory(note)
      hits == Hits(note)
  IN  /\ hits = {} => r = Misc
      /\ hits # {} => r = returns[First(hits)]
      /\ hits \cap TravelSubRules # {} =>
            r = returns[First(hits \cap TravelSubRules)] /\ r.main = "Travel"
      /\ hits \cap TravelSubRules = {} /\ hits \cap MedicalSubRules # {} =>
            r = returns[First(hits \cap MedicalSubRules)] /\ r.main = "Medical"
      /\ hits # {} /\ hits \subseteq MainOnlyRules => r.sub = NoSub
      /\ note = "" => r = Misc
      /\ note = "Uber to airport" =>
            r = [main |-> "Travel", sub |-> "Stipend.Meals.Taxi.Petrol"]
      /\ note = "Clinic ultrasound" => r = [main |-> "Medical", sub |-> "Scans"]

(* The note in the expense form matches a Travel and a Medical rule, and an
   expense was stored with the category suggested for it. *)
C14_Witness ==
  /\ tab = "expenses"
  /\ note = "Flight for scan"
  /\ Hits(note) \cap TravelSubRules # {}
  /\ Hits(note) \cap MedicalSubRules # {}
  /\ \E i \in 1..Len(activeCase.expenses) :
       /\ activeCase.expenses[i].category = "Travel"
       /\ activeCase.expenses[i].subCategory = "Flight"

(* C15: for every case that holds an account, the account's derived balance
   is its starting balance - totals.paidOut + totals.receivedIn (stated for
   collections whose case ids differ). *)
C15_BalanceReconciles ==
  UniqueCaseIds =>
    \A k \in 1..Len(cases) :
      LET c == cases[k] IN
      Len(c.accounts) = 1 =>
        DerivedBalance(c) =
          c.accounts[1].balance - totals(c).paidOut + totals(c).receivedIn

(* The account ids a record of case c may carry *)
OwnAccountIds(c) == {NoAccount} \cup {c.accounts[i].id : i \in 1..Len(c.accounts)}

(* C16: every expense and every payment of a case carries an accountId that
   is empty or the id of that case's account (stated for collections whose
   case ids differ). *)
C16_RecordsOfOwnAccount ==
  UniqueCaseIds =>
    \A k \in 1..Len(cases) :
      /\ \A i \in 1..Len(cases[k].expenses) :
           cases[k].expenses[i].accountId \in OwnAccountIds(cases[k])
      /\ \A i \in 1..Len(cases[k].payments) :
           cases[k].payments[i].accountId \in OwnAccountIds(cases[k])

(* C17: the active case id is the id of exactly one case of the collection. *)
C17_ActiveCaseIsOne ==
  Cardinality({i \in 1..Len(cases) : cases[i].id = activeId}) = 1

(* C18: while ReminderCenter shows the reminder text of a selected payment,
   that payment is a payment of the active case and is upcoming or missed. *)
C18_ReminderOfOpenPayment ==
  (tab = "payments" /\ selected # NoPayment) =>
    /\ ReminderText = reminderPreview(tone, selected)
    /\ \E i \in 1..Len(activeCase.payments) :
         /\ activeCase.payments[i].id = selected.id
         /\ activeCase.payments[i].status \in {"upcoming", "missed"}

=============================================================================
